---------------------------- MODULE Spec2Model ----------------------------
(***************************************************************************)
(* Theme installers of shellshade (main/services/installer.ts and           *)
(* main/ipc/installer.ts).  Each installer is one action: the theme lookup, *)
(* the directory creation, the file writes and the scripting subprocesses   *)
(* of one call, with the outcome of every filesystem and subprocess step    *)
(* chosen nondeterministically.                                             *)
(*                                                                          *)
(* Text is a sequence of one-character strings.  Three characters that      *)
(* would need escaping are written as tokens: "dq" is the double quote,     *)
(* "bs" the backslash and "nl" the line feed.                               *)
(***************************************************************************)
EXTENDS Naturals, Sequences, FiniteSets

VARIABLES
    dirs,           \* the config directories that exist
    itermProfiles,  \* DynamicProfiles directory: file slug -> profile written
    itermSessions,  \* profile name the open iTerm2 sessions were switched to
    termSets,       \* Terminal.app: names of the settings sets
    termDefault,    \* Terminal.app: default and startup settings set
    termWindows,    \* Terminal.app: settings set of the open windows
    wtFiles,        \* Windows Terminal: settings path -> settings document
    alacrittyFile,  \* alacritty.toml
    kittyTheme,     \* current-theme.conf
    kittyConf,      \* kitty.conf
    initial,        \* the config files as they were before the first call
    doc,            \* a settings text handed to the JSONC stripper
    stripped,       \* what the stripper made of doc
    result,         \* what the last installer call gave its caller
    last,           \* the last installer call
    storedName,     \* a theme name in storage, put into the scripts
    command,        \* the last shell command line handed to execAsync
    ipc             \* install requests: received and not yet handled, handled

vars == <<dirs, itermProfiles, itermSessions, termSets, termDefault, termWindows,
          wtFiles, alacrittyFile, kittyTheme, kittyConf, initial, doc, stripped,
          result, last, storedName, command, ipc>>

fsVars == <<dirs, itermProfiles, wtFiles, alacrittyFile, kittyTheme, kittyConf>>
terminalVars == <<itermSessions, termSets, termDefault, termWindows>>
otherVars == <<initial, doc, stripped, storedName, command>>

\* ------------------------------------------------------------- values

DQ == "dq"
BS == "bs"
NL == "nl"

NoField == "NoField"    \* an optional string field that is not set
Null == [isNull |-> TRUE]
NoName == <<>>          \* no profile name

\* A path that does not exist, and a file with its content.
Absent == [exists |-> FALSE]
File(content) == [exists |-> TRUE, content |-> content]

Path(dir, file) == [dir |-> dir, file |-> file]
EmptyPath == Path("", <<>>)

Instructions(text, themeName) == [text |-> text, name |-> themeName]
NoInstructions == Instructions("", <<>>)

SeqsUpTo(S, n) == UNION {[1..k -> S] : k \in 0..n}

\* ------------------------------------------------------------ storage

\* The rows of table themes: id -> name.
Themes ==
    [id \in {"t1", "t2", "t3", "ghost"} |->
        CASE id = "t1" -> <<"N", "o">>
          [] id = "t2" -> <<"n", "o">>
          [] id = "t3" -> <<",", "}">>
          [] id = "ghost" -> <<"G">>]

\* The rows of table theme_colors: id -> {<<color_key, hex_value>>}.
ThemeColorRows(themeId) ==
    CASE themeId = "t1" -> {<<"background", "#1e1e2e">>, <<"foreground", "#cdd6f4">>,
                            <<"cursor", "#f5e0dc">>}
      [] themeId = "t2" -> {<<"background", "#2e3440">>}
      [] themeId = "t3" -> {<<"foreground", "#00ff00">>}
      [] themeId = "t4" -> {<<"cursor", "#ff0000">>}
      [] OTHER -> {}

ThemeIds == {"t1", "t2", "t3", "t4", "ghost", "nobody"}

ColorOr(rows, key, dflt) ==
    IF \E r \in rows : r[1] = key
    THEN (CHOOSE r \in rows : r[1] = key)[2]
    ELSE dflt

\* getThemeColors without the check of line 25: defaults for a theme with no rows.
getThemeColorsUnchecked(themeId) ==
    LET colors == ThemeColorRows(themeId)
    IN  [background |-> ColorOr(colors, "background", "#000000"),
         foreground |-> ColorOr(colors, "foreground", "#ffffff"),
         cursor     |-> ColorOr(colors, "cursor", "#ffffff")]

\* Three of the twenty-two keys; the others are read the same way.
getThemeColors(themeId) ==
    LET colors == ThemeColorRows(themeId)
    IN  IF colors = {} THEN Null
        ELSE [background |-> ColorOr(colors, "background", "#000000"),
              foreground |-> ColorOr(colors, "foreground", "#ffffff"),
              cursor     |-> ColorOr(colors, "cursor", "#ffffff")]

Untitled == <<"U", "n", "t", "i", "t", "l", "e", "d">>

getThemeName(themeId) ==
    IF themeId \in DOMAIN Themes /\ Themes[themeId] # <<>>
    THEN Themes[themeId]
    ELSE Untitled

\* ------------------------------------------------------------ results

Returned(success, path, instructions, error) ==
    [outcome |-> "returned", success |-> success, path |-> path,
     instructions |-> instructions, error |-> error]

\* The call ended in a rejected promise instead of an InstallResult.
Threw(what) ==
    [outcome |-> "threw", success |-> FALSE, path |-> EmptyPath,
     instructions |-> NoInstructions, error |-> what]

NoResult ==
    [outcome |-> "none", success |-> FALSE, path |-> EmptyPath,
     instructions |-> NoInstructions, error |-> NoField]

ThemeNotFound == Returned(FALSE, EmptyPath, NoInstructions, "Theme not found")

Call(installer, themeId, execs, wrote) ==
    [installer |-> installer, themeId |-> themeId, execs |-> execs, wrote |-> wrote]

\* Outcomes of a filesystem step: done, failed with the target untouched, or
\* failed with the target left truncated.
WriteOutcomes == {"ok", "fail", "trunc"}
StepOutcomes == {"ok", "fail"}

Truncated == [kind |-> "empty"]

\* mkdirSync runs only when existsSync found no directory, readFileSync only
\* on a file existsSync found.
MkdirOutcomes(dir) == IF dir \in dirs THEN {"ok"} ELSE StepOutcomes
ReadOutcomes(file) == IF file.exists THEN StepOutcomes ELSE {"ok"}

\* ------------------------------------------------------------- iTerm2

LowerCase(c) ==
    CASE c = "N" -> "n"
      [] c = "G" -> "g"
      [] c = "U" -> "u"
      [] OTHER -> c

LowerAlnum == {"n", "o", "g", "u", "t", "i", "l", "e", "d"}

RECURSIVE SlugFrom(_, _, _)
SlugFrom(s, i, inRun) ==
    IF i > Len(s) THEN <<>>
    ELSE IF s[i] \in LowerAlnum THEN <<s[i]>> \o SlugFrom(s, i + 1, FALSE)
    ELSE IF inRun THEN SlugFrom(s, i + 1, TRUE)
    ELSE <<"-">> \o SlugFrom(s, i + 1, TRUE)

\* themeName.toLowerCase().replace(/[^a-z0-9]+/g, '-')
slugName(themeName) ==
    SlugFrom([i \in 1..Len(themeName) |-> LowerCase(themeName[i])], 1, FALSE)

profilePath(themeName) == Path("DynamicProfiles", slugName(themeName))

ItermProfile(themeId, themeName, colors) ==
    [kind |-> "profile", Name |-> themeName, Guid |-> themeId,
     Background |-> colors.background,
     Foreground |-> colors.foreground, Cursor |-> colors.cursor]

ItermApplied(themeName) ==
    Returned(TRUE, profilePath(themeName), Instructions("applied to iTerm2", themeName),
             NoField)

\* The catch of line 160 reporting the failed AppleScript as a failed install.
ItermApplyFailure(themeName) ==
    Returned(FALSE, profilePath(themeName), NoInstructions, "Failed to apply profile")

ItermInstalled(themeName) ==
    Returned(TRUE, profilePath(themeName),
             Instructions("installed, select it in iTerm2", themeName), NoField)

ItermWriteFailed(themeName) ==
    Returned(FALSE, profilePath(themeName), NoInstructions, "Failed to write profile")

PutFile(files, name, content) ==
    [n \in DOMAIN files \cup {name} |-> IF n = name THEN content ELSE files[n]]

installToIterm2(themeId, mk, wr, ex) ==
    LET colors == getThemeColors(themeId)
        themeName == getThemeName(themeId)
        slug == slugName(themeName)
    IN  /\ UNCHANGED <<wtFiles, alacrittyFile, kittyTheme, kittyConf, termSets,
                       termDefault, termWindows, otherVars>>
        /\ IF colors = Null
           THEN /\ result' = ThemeNotFound
                /\ last' = Call("iterm2", themeId, 0, FALSE)
                /\ UNCHANGED <<dirs, itermProfiles, itermSessions>>
           ELSE IF "iterm2" \notin dirs /\ mk = "fail"
           THEN /\ result' = Threw("mkdirSync")
                /\ last' = Call("iterm2", themeId, 0, FALSE)
                /\ UNCHANGED <<dirs, itermProfiles, itermSessions>>
           ELSE /\ dirs' = dirs \cup {"iterm2"}
                /\ CASE wr = "fail" ->
                          /\ result' = ItermWriteFailed(themeName)
                          /\ last' = Call("iterm2", themeId, 0, FALSE)
                          /\ UNCHANGED <<itermProfiles, itermSessions>>
                     [] wr = "trunc" ->
                          /\ result' = ItermWriteFailed(themeName)
                          /\ last' = Call("iterm2", themeId, 0, FALSE)
                          /\ itermProfiles' = PutFile(itermProfiles, slug, Truncated)
                          /\ UNCHANGED itermSessions
                     [] OTHER ->
                          /\ itermProfiles' =
                                PutFile(itermProfiles, slug,
                                        ItermProfile(themeId, themeName, colors))
                          /\ last' = Call("iterm2", themeId, 1, TRUE)
                          /\ IF ex = "ok"
                             THEN /\ result' = ItermApplied(themeName)
                                  /\ itermSessions' = themeName
                             ELSE /\ result' = ItermInstalled(themeName)
                                  /\ UNCHANGED itermSessions

\* ------------------------------------------------------- Terminal.app

TerminalApplied(themeName) ==
    Returned(TRUE, EmptyPath,
             Instructions("applied, all open Terminal windows updated", themeName), NoField)

TerminalSaved(themeName) ==
    Returned(TRUE, EmptyPath, Instructions("saved to Terminal profiles", themeName), NoField)

TerminalCreateFailed ==
    Returned(FALSE, EmptyPath, NoInstructions, "Failed to create Terminal profile")

installToTerminalApp(themeId, create, apply) ==
    LET colors == getThemeColors(themeId)
        themeName == getThemeName(themeId)
    IN  /\ UNCHANGED <<fsVars, itermSessions, otherVars>>
        /\ IF colors = Null
           THEN /\ result' = ThemeNotFound
                /\ last' = Call("terminalApp", themeId, 0, FALSE)
                /\ UNCHANGED <<termSets, termDefault, termWindows>>
           ELSE IF create = "fail"
           THEN /\ result' = TerminalCreateFailed
                /\ last' = Call("terminalApp", themeId, 1, FALSE)
                /\ UNCHANGED <<termSets, termDefault, termWindows>>
           ELSE /\ termSets' = termSets \cup {themeName}
                /\ termDefault' = themeName
                /\ last' = Call("terminalApp", themeId, 2, TRUE)
                /\ IF apply = "ok"
                   THEN /\ result' = TerminalApplied(themeName)
                        /\ termWindows' = themeName
                   ELSE /\ result' = TerminalSaved(themeName)
                        /\ UNCHANGED termWindows

\* -------------------------------------------------------------- Kitty

\* The text 'include current-theme.conf', one token of a kitty.conf text.
includeStatement == "include current-theme.conf"

themePath == Path("kitty", <<"current-theme.conf">>)

kittyThemeContent(themeName, colors) ==
    [kind |-> "kittyTheme", name |-> themeName, foreground |-> colors.foreground,
     background |-> colors.background, cursor |-> colors.cursor]

\* kittyConf.includes(includeStatement)
Includes(text, token) == \E i \in 1..Len(text) : text[i] = token

KittyApplied(themeName) ==
    Returned(TRUE, themePath, Instructions("applied to Kitty", themeName), NoField)

KittyFailed ==
    Returned(FALSE, themePath, NoInstructions, "Failed to update Kitty config")

\* Line 671 without its test: the directive is prepended at every install.
NeedsIncludeAlways(kittyConfText) == TRUE

\* Line 671: !kittyConf.includes(includeStatement)
NeedsInclude(kittyConfText) == ~Includes(kittyConfText, includeStatement)

\* Line 672: `${includeStatement}\n${kittyConf}`
WithInclude(kittyConfText) == <<includeStatement, NL>> \o kittyConfText

installToKitty(themeId, mk, wrTheme, rd, wrConf) ==
    LET colors == getThemeColors(themeId)
        themeName == getThemeName(themeId)
        kittyConfText == IF kittyConf.exists THEN kittyConf.content ELSE <<>>
    IN  /\ UNCHANGED <<itermProfiles, wtFiles, alacrittyFile, terminalVars, otherVars>>
        /\ IF colors = Null
           THEN /\ result' = ThemeNotFound
                /\ last' = Call("kitty", themeId, 0, FALSE)
                /\ UNCHANGED <<dirs, kittyTheme, kittyConf>>
           ELSE IF "kitty" \notin dirs /\ mk = "fail"
           THEN /\ result' = Threw("mkdirSync")
                /\ last' = Call("kitty", themeId, 0, FALSE)
                /\ UNCHANGED <<dirs, kittyTheme, kittyConf>>
           ELSE /\ dirs' = dirs \cup {"kitty"}
                /\ CASE wrTheme = "fail" ->
                          /\ result' = KittyFailed
                          /\ last' = Call("kitty", themeId, 0, FALSE)
                          /\ UNCHANGED <<kittyTheme, kittyConf>>
                     [] wrTheme = "trunc" ->
                          /\ result' = KittyFailed
                          /\ last' = Call("kitty", themeId, 0, FALSE)
                          /\ kittyTheme' = File(Truncated)
                          /\ UNCHANGED kittyConf
                     [] OTHER ->
                          /\ kittyTheme' = File(kittyThemeContent(themeName, colors))
                          /\ last' = Call("kitty", themeId, 0, TRUE)
                          /\ IF kittyConf.exists /\ rd = "fail"
                             THEN /\ result' = KittyFailed
                                  /\ UNCHANGED kittyConf
                             ELSE IF ~NeedsInclude(kittyConfText)
                             THEN /\ result' = KittyApplied(themeName)
                                  /\ UNCHANGED kittyConf
                             ELSE CASE wrConf = "fail" ->
                                         /\ result' = KittyFailed
                                         /\ UNCHANGED kittyConf
                                    [] wrConf = "trunc" ->
                                         /\ result' = KittyFailed
                                         /\ kittyConf' = File(<<>>)
                                    [] OTHER ->
                                         /\ result' = KittyApplied(themeName)
                                         /\ kittyConf' = File(WithInclude(kittyConfText))

\* ---------------------------------------------------------- Alacritty

\* Tokens of an alacritty.toml text: the five section headers the installer
\* strips, any other '[', the two lines of the generated comment header, the
\* line feed, the blank, and "k" and "j" for two other runs of characters.
ColorsPrimary == "[colors.primary]"
ColorsCursor == "[colors.cursor]"
ColorsSelection == "[colors.selection]"
ColorsNormal == "[colors.normal]"
ColorsBright == "[colors.bright]"
Bracket == "["
HeaderTheme == "# ShellShade Theme:"
HeaderGenerated == "# Generated by ShellShade"
Blank == " "

ColorHeaders == {ColorsPrimary, ColorsCursor, ColorsSelection, ColorsNormal, ColorsBright}

\* The lookahead \[ of the section patterns.
StartsWithBracket(tok) == tok \in ColorHeaders \cup {Bracket}

\* \s
IsSpace(tok) == tok \in {Blank, NL}

RECURSIVE SectionEnd(_, _)
SectionEnd(text, j) ==
    IF j > Len(text) \/ StartsWithBracket(text[j]) THEN j
    ELSE SectionEnd(text, j + 1)

\* text.replace(/\[colors\.X\][\s\S]*?(?=\[|$)/g, '')
RECURSIVE StripSectionFrom(_, _, _)
StripSectionFrom(text, i, header) ==
    IF i > Len(text) THEN <<>>
    ELSE IF text[i] = header
         THEN StripSectionFrom(text, SectionEnd(text, i + 1), header)
         ELSE <<text[i]>> \o StripSectionFrom(text, i + 1, header)

StripSection(text, header) == StripSectionFrom(text, 1, header)

RECURSIVE LineEnd(_, _)
LineEnd(text, j) ==
    IF j > Len(text) \/ text[j] = NL THEN j ELSE LineEnd(text, j + 1)

RECURSIVE SkipNewlines(_, _)
SkipNewlines(text, j) ==
    IF j <= Len(text) /\ text[j] = NL THEN SkipNewlines(text, j + 1) ELSE j

\* text.replace(/# ShellShade Theme:.*\n# Generated by ShellShade\n*/g, '')
RECURSIVE StripHeaderFrom(_, _)
StripHeaderFrom(text, i) ==
    IF i > Len(text) THEN <<>>
    ELSE LET e == LineEnd(text, i + 1)
         IN  IF /\ text[i] = HeaderTheme
                /\ e + 1 <= Len(text)
                /\ text[e + 1] = HeaderGenerated
             THEN StripHeaderFrom(text, SkipNewlines(text, e + 2))
             ELSE <<text[i]>> \o StripHeaderFrom(text, i + 1)

StripHeader(text) == StripHeaderFrom(text, 1)

RECURSIVE TrimStart(_)
TrimStart(text) ==
    IF text # <<>> /\ IsSpace(Head(text)) THEN TrimStart(Tail(text)) ELSE text

RECURSIVE TrimEnd(_)
TrimEnd(text) ==
    IF text # <<>> /\ IsSpace(text[Len(text)])
    THEN TrimEnd(SubSeq(text, 1, Len(text) - 1))
    ELSE text

\* String.prototype.trim
Trim(text) == TrimEnd(TrimStart(text))

\* The replace chain of lines 572..579.
StripColors(existingContent) ==
    Trim(StripHeader(
        StripSection(StripSection(StripSection(StripSection(StripSection(
            existingContent, ColorsPrimary), ColorsCursor), ColorsSelection),
            ColorsNormal), ColorsBright)))

tomlContent(themeName, colors) ==
    <<HeaderTheme, Blank>> \o themeName \o
    <<NL, HeaderGenerated, NL, NL,
      ColorsPrimary, NL, "background = ", colors.background, NL,
      "foreground = ", colors.foreground, NL, NL,
      ColorsCursor, NL, "cursor = ", colors.cursor, NL, NL,
      ColorsSelection, NL, "background = ", colors.background, NL, NL,
      ColorsNormal, NL, "black = ", colors.background, NL, NL,
      ColorsBright, NL, "white = ", colors.foreground, NL>>

finalContent(existingContent, toml) ==
    IF existingContent # <<>> THEN existingContent \o <<NL, NL>> \o toml ELSE toml

configPath == Path("alacritty", <<"alacritty.toml">>)

AlacrittyApplied(themeName) ==
    Returned(TRUE, configPath, Instructions("applied to Alacritty", themeName), NoField)

AlacrittyFailed ==
    Returned(FALSE, configPath, NoInstructions, "Failed to update Alacritty config")

installToAlacritty(themeId, mk, rd, wr) ==
    LET colors == getThemeColors(themeId)
        themeName == getThemeName(themeId)
        existingContent ==
            IF alacrittyFile.exists THEN StripColors(alacrittyFile.content) ELSE <<>>
    IN  /\ UNCHANGED <<itermProfiles, wtFiles, kittyTheme, kittyConf, terminalVars,
                       otherVars>>
        /\ IF colors = Null
           THEN /\ result' = ThemeNotFound
                /\ last' = Call("alacritty", themeId, 0, FALSE)
                /\ UNCHANGED <<dirs, alacrittyFile>>
           ELSE IF "alacritty" \notin dirs /\ mk = "fail"
           THEN /\ result' = Threw("mkdirSync")
                /\ last' = Call("alacritty", themeId, 0, FALSE)
                /\ UNCHANGED <<dirs, alacrittyFile>>
           ELSE /\ dirs' = dirs \cup {"alacritty"}
                /\ IF (alacrittyFile.exists /\ rd = "fail") \/ wr = "fail"
                   THEN /\ result' = AlacrittyFailed
                        /\ last' = Call("alacritty", themeId, 0, FALSE)
                        /\ UNCHANGED alacrittyFile
                   ELSE IF wr = "trunc"
                   THEN /\ result' = AlacrittyFailed
                        /\ last' = Call("alacritty", themeId, 0, FALSE)
                        /\ alacrittyFile' = File(<<>>)
                   ELSE /\ result' = AlacrittyApplied(themeName)
                        /\ last' = Call("alacritty", themeId, 0, TRUE)
                        /\ alacrittyFile' =
                              File(finalContent(existingContent,
                                                tomlContent(themeName, colors)))

\* ------------------------------------------------------ JSONC stripper

\* Line 397 without its test: comments are looked for inside strings too.
OutsideStringAlways(inString) == TRUE

\* Line 397: comments are looked for only outside a string.
OutsideString(inString) == ~inString

\* Lines 401..403: the index of the line feed ending a // comment, or the end.
RECURSIVE SkipLineComment(_, _)
SkipLineComment(settingsContent, i) ==
    IF i <= Len(settingsContent) /\ settingsContent[i] # NL
    THEN SkipLineComment(settingsContent, i + 1)
    ELSE i

\* Lines 409..415, entered after '/*' was skipped: the index after the closing
\* '*/'; the loop never looks at the last character of the text as a first
\* character of the closer, and leaves the index on it when none is found.
RECURSIVE SkipBlockComment(_, _)
SkipBlockComment(settingsContent, i) ==
    IF i < Len(settingsContent)
    THEN IF settingsContent[i] = "*" /\ settingsContent[i + 1] = "/"
         THEN i + 2
         ELSE SkipBlockComment(settingsContent, i + 1)
    ELSE i

\* Lines 371..422: the indices of the characters appended to jsonWithoutComments.
RECURSIVE ScanFrom(_, _, _, _)
ScanFrom(settingsContent, i, inString, escaped) ==
    IF i > Len(settingsContent) THEN <<>>
    ELSE LET char == settingsContent[i]
             nextChar == IF i + 1 <= Len(settingsContent)
                         THEN settingsContent[i + 1] ELSE "undefined"
         IN  IF escaped
             THEN <<i>> \o ScanFrom(settingsContent, i + 1, inString, FALSE)
             ELSE IF char = BS /\ inString
             THEN <<i>> \o ScanFrom(settingsContent, i + 1, inString, TRUE)
             ELSE IF char = DQ
             THEN <<i>> \o ScanFrom(settingsContent, i + 1, ~inString, FALSE)
             ELSE IF OutsideString(inString) /\ char = "/" /\ nextChar = "/"
             THEN ScanFrom(settingsContent, SkipLineComment(settingsContent, i),
                           inString, FALSE)
             ELSE IF OutsideString(inString) /\ char = "/" /\ nextChar = "*"
             THEN ScanFrom(settingsContent, SkipBlockComment(settingsContent, i + 2),
                           inString, FALSE)
             ELSE <<i>> \o ScanFrom(settingsContent, i + 1, inString, FALSE)

KeptIndices(settingsContent) == ScanFrom(settingsContent, 1, FALSE, FALSE)

\* The text the scanner builds.
jsonWithoutComments(settingsContent) ==
    LET kept == KeptIndices(settingsContent)
    IN  [k \in 1..Len(kept) |-> settingsContent[kept[k]]]

RECURSIVE SkipSpace(_, _)
SkipSpace(text, j) ==
    IF j <= Len(text) /\ IsSpace(text[j]) THEN SkipSpace(text, j + 1) ELSE j

\* The comma at i - 1 starts a match of /,(\s*[}\]])/.
BeforeCloser(text, i) ==
    LET k == SkipSpace(text, i)
    IN  k <= Len(text) /\ text[k] \in {"}", "]"}

RECURSIVE RemoveCommasFrom(_, _)
RemoveCommasFrom(text, i) ==
    IF i > Len(text) THEN <<>>
    ELSE IF text[i] = "," /\ BeforeCloser(text, i + 1)
         THEN RemoveCommasFrom(text, i + 1)
         ELSE <<text[i]>> \o RemoveCommasFrom(text, i + 1)

\* text.replace(/,(\s*[}\]])/g, '$1')
removeTrailingCommas(text) == RemoveCommasFrom(text, 1)

\* Lines 366..425.
stripJsonc(settingsContent) == removeTrailingCommas(jsonWithoutComments(settingsContent))

\* JSON.stringify of a string.
RECURSIVE JsonEscape(_)
JsonEscape(str) ==
    IF str = <<>> THEN <<>>
    ELSE (CASE Head(str) = DQ -> <<BS, DQ>>
            [] Head(str) = BS -> <<BS, BS>>
            [] Head(str) = NL -> <<BS, "n">>
            [] OTHER -> <<Head(str)>>) \o JsonEscape(Tail(str))

JsonStringifyString(str) == <<DQ>> \o JsonEscape(str) \o <<DQ>>

\* The characters a valid body of a JSON string literal stands for.
RECURSIVE JsonUnescape(_)
JsonUnescape(body) ==
    IF body = <<>> THEN <<>>
    ELSE IF Head(body) = BS
         THEN <<(IF body[2] = "n" THEN NL ELSE body[2])>> \o JsonUnescape(Tail(Tail(body)))
         ELSE <<Head(body)>> \o JsonUnescape(Tail(body))

\* A valid body of a JSON string literal: no bare quote or line feed, and
\* every backslash starts one of the escapes \" \\ \/ \n.
RECURSIVE IsJsonStringBody(_)
IsJsonStringBody(body) ==
    IF body = <<>> THEN TRUE
    ELSE IF Head(body) = BS
         THEN /\ Len(body) >= 2
              /\ body[2] \in {DQ, BS, "/", "n"}
              /\ IsJsonStringBody(Tail(Tail(body)))
         ELSE Head(body) \notin {DQ, NL} /\ IsJsonStringBody(Tail(body))

\* JSON.parse accepts the text as a string literal, spaces around it allowed.
IsJsonString(text) ==
    LET t == Trim(text)
    IN  /\ Len(t) >= 2
        /\ t[1] = DQ
        /\ t[Len(t)] = DQ
        /\ IsJsonStringBody(SubSeq(t, 2, Len(t) - 1))

JsonParseString(text) ==
    LET t == Trim(text) IN JsonUnescape(SubSeq(t, 2, Len(t) - 1))

\* A string of the settings file as the installer reads it back: written by
\* JSON.stringify, stripped, parsed.
ReadString(str) == JsonParseString(stripJsonc(JsonStringifyString(str)))

\* --------------------------------------------------- Windows Terminal

\* The three settings paths, in the order they are looked for.
SettingsPaths == <<"stable", "preview", "unpackaged">>

WtPath(p) == Path(p, <<"settings.json">>)

\* Shapes of a value of the settings document.
Missing == [kind |-> "absent"]
SchemeList(items) == [kind |-> "list", items |-> items]
NotAList == [kind |-> "object"]
ProfileList == [kind |-> "list"]
Profiles(defaults) == [kind |-> "object", defaults |-> defaults]
Defaults(colorScheme) == [kind |-> "object", colorScheme |-> colorScheme]

Settings(schemes, profiles) ==
    [kind |-> "settings", schemes |-> schemes, profiles |-> profiles]
Unparseable == [kind |-> "unparseable"]

Scheme(themeName, colors) ==
    [name |-> themeName, background |-> colors.background,
     foreground |-> colors.foreground, cursorColor |-> colors.cursor]

\* Line 361 to 429: the document JSON.parse gives for the file's text.
ReadSettings(content) ==
    LET sch == content.schemes
        pro == content.profiles
    IN  Settings(
          IF sch.kind = "list"
          THEN SchemeList([i \in 1..Len(sch.items) |->
                             [sch.items[i] EXCEPT !.name = ReadString(@)]])
          ELSE sch,
          IF pro.kind = "object" /\ pro.defaults.kind = "object"
          THEN Profiles(Defaults(ReadString(pro.defaults.colorScheme)))
          ELSE pro)

\* settings.schemes.filter(s => s.name !== themeName)
RemoveScheme(items, themeName) == SelectSeq(items, LAMBDA s : s.name # themeName)

\* Lines 464..472.
MergeScheme(schemes, scheme) ==
    LET items == IF schemes.kind = "absent" THEN <<>> ELSE schemes.items
    IN  SchemeList(Append(RemoveScheme(items, scheme.name), scheme))

\* Lines 475..481, as JSON.stringify writes the value: a property set on a
\* list is not written.
ApplyScheme(profiles, themeName) ==
    CASE profiles.kind = "absent" -> Profiles(Defaults(themeName))
      [] profiles.kind = "object" -> Profiles(Defaults(themeName))
      [] OTHER -> profiles

actualSettingsPath ==
    IF wtFiles["stable"].exists THEN "stable"
    ELSE IF wtFiles["preview"].exists THEN "preview"
    ELSE IF wtFiles["unpackaged"].exists THEN "unpackaged"
    ELSE ""

WtNotFound ==
    Returned(FALSE, EmptyPath, NoInstructions, "Windows Terminal settings not found")

WtParseFailed(p) ==
    Returned(FALSE, WtPath(p), NoInstructions, "Failed to parse Windows Terminal settings")

WtFailed(p) ==
    Returned(FALSE, WtPath(p), NoInstructions, "Failed to update Windows Terminal settings")

WtApplied(p, themeName) ==
    Returned(TRUE, WtPath(p), Instructions("applied to Windows Terminal", themeName), NoField)

installToWindowsTerminal(themeId, rd, wr) ==
    LET colors == getThemeColors(themeId)
        themeName == getThemeName(themeId)
        p == actualSettingsPath
    IN  /\ UNCHANGED <<dirs, itermProfiles, alacrittyFile, kittyTheme, kittyConf,
                       terminalVars, otherVars>>
        /\ IF colors = Null
           THEN /\ result' = ThemeNotFound
                /\ last' = Call("windowsTerminal", themeId, 0, FALSE)
                /\ UNCHANGED wtFiles
           ELSE IF p = ""
           THEN /\ result' = WtNotFound
                /\ last' = Call("windowsTerminal", themeId, 0, FALSE)
                /\ UNCHANGED wtFiles
           ELSE IF rd = "fail"
           THEN /\ result' = WtFailed(p)
                /\ last' = Call("windowsTerminal", themeId, 0, FALSE)
                /\ UNCHANGED wtFiles
           ELSE IF wtFiles[p].content.kind = "unparseable"
           THEN /\ result' = WtParseFailed(p)
                /\ last' = Call("windowsTerminal", themeId, 0, FALSE)
                /\ UNCHANGED wtFiles
           ELSE LET settings == ReadSettings(wtFiles[p].content)
                IN  IF settings.schemes.kind = "object" \/ wr = "fail"
                    THEN /\ result' = WtFailed(p)
                         /\ last' = Call("windowsTerminal", themeId, 0, FALSE)
                         /\ UNCHANGED wtFiles
                    ELSE IF wr = "trunc"
                    THEN /\ result' = WtFailed(p)
                         /\ last' = Call("windowsTerminal", themeId, 0, FALSE)
                         /\ wtFiles' = [wtFiles EXCEPT ![p] = File(Unparseable)]
                    ELSE /\ result' = WtApplied(p, themeName)
                         /\ last' = Call("windowsTerminal", themeId, 0, TRUE)
                         /\ wtFiles' = [wtFiles EXCEPT ![p] =
                               File(Settings(
                                   MergeScheme(settings.schemes, Scheme(themeName, colors)),
                                   ApplyScheme(settings.profiles, themeName)))]

\* ------------------------------------------------- the stripper alone

Stripping(stage, kept, text) == [stage |-> stage, kept |-> kept, text |-> text]
NotStripping == Stripping("none", <<>>, <<>>)

ScanComments ==
    /\ stripped.stage = "input"
    /\ stripped' = Stripping("scanned", KeptIndices(doc), jsonWithoutComments(doc))
    /\ UNCHANGED <<fsVars, terminalVars, initial, doc, result, last, storedName,
                   command, ipc>>

CleanCommas ==
    /\ stripped.stage = "scanned"
    /\ stripped' = Stripping("cleaned", stripped.kept, removeTrailingCommas(stripped.text))
    /\ UNCHANGED <<fsVars, terminalVars, initial, doc, result, last, storedName,
                   command, ipc>>

\* ------------------------------------------------------- OS scripting

SQ == "sq"              \* the single quote
Hole == "${name}"       \* where a template takes the theme name

RECURSIVE ReplaceAll(_, _, _)
ReplaceAll(text, char, by) ==
    IF Len(text) = 0 THEN <<>>
    ELSE IF Len(text) = 1 THEN (IF text[1] = char THEN by ELSE text)
    ELSE LET mid == Len(text) \div 2
         IN  ReplaceAll(SubSeq(text, 1, mid), char, by)
             \o ReplaceAll(SubSeq(text, mid + 1, Len(text)), char, by)

\* Lines 195 and 277: themeName.replace(/"/g, '\\"').
escapedName(themeName) == ReplaceAll(themeName, DQ, <<BS, DQ>>)

\* The four script templates; text without quotes is one token.
ItermTemplate ==
    <<"tell application ", DQ, "iTerm", DQ,
      " repeat with w in windows repeat with t in tabs of w repeat with s in sessions of t tell s to set profile to ",
      DQ, Hole, DQ, " end repeat end repeat end repeat end tell">>

CreateProfileTemplate ==
    <<"tell application ", DQ, "Terminal", DQ, " if not (exists settings set ",
      DQ, Hole, DQ, ") then make new settings set with properties {name:",
      DQ, Hole, DQ, "} end if set targetSettings to settings set ", DQ, Hole, DQ,
      " set background color of targetSettings to {r, g, b} set normal text color of targetSettings to {r, g, b} set cursor color of targetSettings to {r, g, b} set default settings to targetSettings set startup settings to targetSettings end tell">>

ApplyTemplate ==
    <<"tell application ", DQ, "Terminal", DQ, " set targetSettings to settings set ",
      DQ, Hole, DQ,
      " if (count of windows) > 0 then repeat with w in windows try set current settings of selected tab of w to targetSettings end try end repeat end if end tell">>

SetDefaultTemplate ==
    <<"tell application ", DQ, "Terminal", DQ, " if not (exists settings set ",
      DQ, Hole, DQ,
      ") then set newSettings to make new settings set with properties {name:",
      DQ, Hole, DQ, "} end if tell settings set ", DQ, Hole, DQ,
      " set background color to {r, g, b} set normal text color to {r, g, b} set cursor color to {r, g, b} end tell set default settings to settings set ",
      DQ, Hole, DQ, " set startup settings to settings set ", DQ, Hole, DQ,
      " end tell">>

\* A template literal with its ${...} filled in.
Render(template, text) == ReplaceAll(template, Hole, text)

\* Lines 141..151: the theme name goes into the script as it is.
itermAppleScript(themeName) == Render(ItermTemplate, themeName)

\* Lines 198..213, 223..233 and 279..299: the escaped name goes into the script.
createProfileScript(themeName) == Render(CreateProfileTemplate, escapedName(themeName))
applyScript(themeName) == Render(ApplyTemplate, escapedName(themeName))
setDefaultAppleScript(themeName) == Render(SetDefaultTemplate, escapedName(themeName))

\* Lines 154, 217, 234 and 302: `osascript -e '${script.replace(/'/g, "'\"'\"'")}'`.
osascriptCommand(script) ==
    <<"osascript", Blank, "-e", Blank, SQ>>
    \o ReplaceAll(script, SQ, <<SQ, DQ, SQ, DQ, SQ>>) \o <<SQ>>

Command(installer, script) ==
    [installer |-> installer, script |-> script, line |-> osascriptCommand(script)]
NoCommand == [installer |-> "none", script |-> <<>>, line |-> <<>>]

\* The subprocess steps of the installers, on the theme name in storage.
ExecCommand(c) ==
    /\ command' = c
    /\ UNCHANGED <<fsVars, terminalVars, initial, doc, stripped, result, last,
                   storedName, ipc>>

execItermScript == ExecCommand(Command("iterm2", itermAppleScript(storedName)))
execCreateProfileScript ==
    ExecCommand(Command("terminalCreate", createProfileScript(storedName)))
execApplyScript == ExecCommand(Command("terminalApply", applyScript(storedName)))
execSetDefaultScript ==
    ExecCommand(Command("terminalDefault", setDefaultAppleScript(storedName)))

\* ---------------------------------------------------------------- IPC

Requests(waiting, done) == [waiting |-> waiting, done |-> done]
NoRequests == Requests({}, <<>>)

\* An install request for Windows Terminal reaches the main process.
Dispatch(themeId, limit) ==
    /\ themeId \notin ipc.waiting
    /\ Cardinality(ipc.waiting) + Len(ipc.done) < limit
    /\ ipc' = Requests(ipc.waiting \cup {themeId}, ipc.done)
    /\ UNCHANGED <<fsVars, terminalVars, otherVars, result, last>>

\* Lines 26..28: the handler of a waiting request runs; the installer has no
\* await, so its read, parse, merge and write are one step of the event loop.
HandleInstallWindowsTerminal(themeId, rd, wr) ==
    /\ themeId \in ipc.waiting
    /\ installToWindowsTerminal(themeId, rd, wr)
    /\ ipc' = Requests(ipc.waiting \ {themeId},
                       Append(ipc.done, [themeId |-> themeId,
                                         success |-> result'.success]))

\* ----------------------------------------------------- specifications

MaxSchemes == 4         \* longest scheme list an install is tried on
MaxInitSchemes == 2     \* longest scheme list of an initial settings file
MaxTomlLen == 4         \* longest initial alacritty.toml, in tokens
MaxConfLen == 3         \* longest initial kitty.conf, in tokens
MaxDocLen == 6          \* longest text given to the comment scanner
MaxJsonLen == 4         \* longest text with commas given to the stripper
MaxNameLen == 3         \* longest theme name put into a script
MaxRequests == 2        \* most install requests received in one run

NoCall == Call("none", "none", 0, FALSE)
NoProfiles == [slug \in {} |-> Absent]
NoSettings == [p \in {"stable", "preview", "unpackaged"} |-> Absent]

\* What the files were before the first call.
Initially == [alacritty |-> alacrittyFile, kittyConf |-> kittyConf, wt |-> wtFiles]

InitMac ==
    /\ itermProfiles = NoProfiles
    /\ itermSessions = NoName
    /\ termSets = {}
    /\ termDefault = NoName
    /\ termWindows = NoName

InitWt == wtFiles = NoSettings

InitAlacritty == alacrittyFile = Absent

InitKitty == kittyTheme = Absent /\ kittyConf = Absent

InitJsonc == doc = <<>> /\ stripped = NotStripping

InitScripts == storedName = NoName /\ command = NoCommand

InitIpc == ipc = NoRequests

InitCalls ==
    /\ result = NoResult /\ last = NoCall /\ initial = Initially
    /\ InitScripts
    /\ InitIpc

\* Every installer, on a machine with no terminal configured yet but a Windows
\* Terminal settings file.
Init ==
    /\ dirs = {}
    /\ InitMac
    /\ wtFiles = [NoSettings EXCEPT !["stable"] = File(Settings(Missing, Missing))]
    /\ InitAlacritty
    /\ InitKitty
    /\ InitJsonc
    /\ InitCalls

RequestedIds == {"t1", "ghost"}

Next ==
    \/ \E themeId \in RequestedIds, mk \in MkdirOutcomes("iterm2"),
          wr \in WriteOutcomes, ex \in StepOutcomes :
          installToIterm2(themeId, mk, wr, ex) /\ UNCHANGED ipc
    \/ \E themeId \in RequestedIds, create \in StepOutcomes, apply \in StepOutcomes :
          installToTerminalApp(themeId, create, apply) /\ UNCHANGED ipc
    \/ \E themeId \in RequestedIds, rd \in StepOutcomes, wr \in WriteOutcomes :
          installToWindowsTerminal(themeId, rd, wr) /\ UNCHANGED ipc
    \/ \E themeId \in RequestedIds, mk \in MkdirOutcomes("alacritty"),
          rd \in ReadOutcomes(alacrittyFile), wr \in WriteOutcomes :
          installToAlacritty(themeId, mk, rd, wr) /\ UNCHANGED ipc
    \/ \E themeId \in RequestedIds, mk \in MkdirOutcomes("kitty"),
          wrTheme \in WriteOutcomes, rd \in ReadOutcomes(kittyConf),
          wrConf \in WriteOutcomes :
          installToKitty(themeId, mk, wrTheme, rd, wrConf) /\ UNCHANGED ipc

Spec == Init /\ [][Next]_vars

\* The iTerm2 installer, every theme.
InitItermOnly ==
    /\ dirs \in {{}, {"iterm2"}}
    /\ InitMac /\ InitWt /\ InitAlacritty /\ InitKitty /\ InitJsonc /\ InitCalls

NextIterm ==
    \E themeId \in ThemeIds, mk \in MkdirOutcomes("iterm2"), wr \in WriteOutcomes,
       ex \in StepOutcomes :
        installToIterm2(themeId, mk, wr, ex) /\ UNCHANGED ipc

SpecIterm == InitItermOnly /\ [][NextIterm]_vars

\* The Windows Terminal installer on any settings file.
InitNames == {<<"N", "o">>, <<",", "}">>}
InitSchemes == {Scheme(n, getThemeColors("t2")) : n \in InitNames}

InitSettings ==
    {Unparseable} \cup
    {Settings(sch, pro) :
        sch \in {Missing, NotAList}
                \cup {SchemeList(items) : items \in SeqsUpTo(InitSchemes, MaxInitSchemes)},
        pro \in {Missing, ProfileList, Profiles(Missing),
                 Profiles(Defaults(NoName)), Profiles(Defaults(<<"x">>))}}

InitWtOnly ==
    /\ dirs = {}
    /\ \E content \in InitSettings,
          found \in {{}, {"stable", "preview"}, {"preview", "unpackaged"}, {"unpackaged"}} :
          wtFiles = [p \in {"stable", "preview", "unpackaged"} |->
                        IF p \in found THEN File(content) ELSE Absent]
    /\ InitMac /\ InitAlacritty /\ InitKitty /\ InitJsonc /\ InitCalls

SchemeCount ==
    LET p == actualSettingsPath
    IN  IF p # "" /\ wtFiles[p].content.kind = "settings"
                  /\ wtFiles[p].content.schemes.kind = "list"
        THEN Len(wtFiles[p].content.schemes.items)
        ELSE 0

NextWt ==
    \E themeId \in {"t1", "t3", "ghost"}, rd \in StepOutcomes, wr \in WriteOutcomes :
        /\ SchemeCount < MaxSchemes
        /\ installToWindowsTerminal(themeId, rd, wr)
        /\ UNCHANGED ipc

SpecWt == InitWtOnly /\ [][NextWt]_vars

\* The Alacritty installer on any config file.
TomlTokens == {"k", "j", NL, Blank, ColorsPrimary, Bracket, HeaderTheme, HeaderGenerated}

InitAlacrittyOnly ==
    /\ \/ dirs = {} /\ alacrittyFile = Absent
       \/ dirs = {"alacritty"}
          /\ alacrittyFile \in {Absent} \cup {File(t) : t \in SeqsUpTo(TomlTokens, MaxTomlLen)}
    /\ InitMac /\ InitWt /\ InitKitty /\ InitJsonc /\ InitCalls

NextAlacritty ==
    \E themeId \in {"t1", "t3", "ghost"}, mk \in MkdirOutcomes("alacritty"),
       rd \in ReadOutcomes(alacrittyFile), wr \in WriteOutcomes :
        installToAlacritty(themeId, mk, rd, wr) /\ UNCHANGED ipc

SpecAlacritty == InitAlacrittyOnly /\ [][NextAlacritty]_vars

\* The Kitty installer on any main config.
ConfTokens == {includeStatement, "k", NL}

InitKittyOnly ==
    /\ \/ dirs = {} /\ kittyConf = Absent /\ kittyTheme = Absent
       \/ /\ dirs = {"kitty"}
          /\ kittyConf \in {Absent} \cup {File(t) : t \in SeqsUpTo(ConfTokens, MaxConfLen)}
          /\ kittyTheme \in {Absent,
                             File(kittyThemeContent(<<"x">>, getThemeColors("t4")))}
    /\ InitMac /\ InitWt /\ InitAlacritty /\ InitJsonc /\ InitCalls

NextKitty ==
    \E themeId \in {"t1", "t2", "ghost"}, mk \in MkdirOutcomes("kitty"),
       wrTheme \in WriteOutcomes, rd \in ReadOutcomes(kittyConf),
       wrConf \in WriteOutcomes :
        installToKitty(themeId, mk, wrTheme, rd, wrConf) /\ UNCHANGED ipc

SpecKitty == InitKittyOnly /\ [][NextKitty]_vars

\* The stripper on any text.
ScanChars == {DQ, BS, "/", "*", NL}
CommaChars == {DQ, BS, ",", "}", Blank}

InitJsoncOnly ==
    /\ dirs = {}
    /\ doc \in SeqsUpTo(ScanChars, MaxDocLen) \cup SeqsUpTo(CommaChars, MaxJsonLen)
    /\ stripped = Stripping("input", <<>>, <<>>)
    /\ InitMac /\ InitWt /\ InitAlacritty /\ InitKitty /\ InitCalls

NextJsonc == ScanComments \/ CleanCommas

SpecJsonc == InitJsoncOnly /\ [][NextJsonc]_vars

\* The scripting subprocesses on any theme name.
NameChars == {DQ, BS, SQ, "a"}

InitScriptsOnly ==
    /\ dirs = {}
    /\ storedName \in SeqsUpTo(NameChars, MaxNameLen)
    /\ command = NoCommand
    /\ InitMac /\ InitWt /\ InitAlacritty /\ InitKitty /\ InitJsonc /\ InitIpc
    /\ result = NoResult /\ last = NoCall /\ initial = Initially

NextScripts ==
    \/ execItermScript
    \/ execCreateProfileScript
    \/ execApplyScript
    \/ execSetDefaultScript

SpecScripts == InitScriptsOnly /\ [][NextScripts]_vars

\* Windows Terminal install requests received while others wait.
NextIpc ==
    \/ \E themeId \in {"t1", "t2", "t3"} : Dispatch(themeId, MaxRequests)
    \/ \E themeId \in {"t1", "t2", "t3"}, rd \in StepOutcomes, wr \in WriteOutcomes :
          HandleInstallWindowsTerminal(themeId, rd, wr)

SpecIpc == InitWtOnly /\ [][NextIpc]_vars

\* ------------------------------------------------------------- claims

\* C1: an installer called with a theme id that has no colour rows in storage
\* returns exactly success=false, path="" and error="Theme not found", and the
\* call creates no directory, writes no file, starts no subprocess and leaves
\* the terminals as they were.
C1_NotFoundBeforeAnyEffect ==
    [][ThemeColorRows(last'.themeId) = {} =>
          /\ result'.outcome = "returned"
          /\ result'.success = FALSE
          /\ result'.path = EmptyPath
          /\ result'.error = "Theme not found"
          /\ result'.instructions = NoInstructions
          /\ last'.execs = 0
          /\ UNCHANGED <<fsVars, terminalVars>>]_vars

\* A theme without colour rows was asked of Kitty after a theme was installed.
C1_Witness ==
    /\ last.installer = "kitty"
    /\ ThemeColorRows(last.themeId) = {}
    /\ result = ThemeNotFound
    /\ kittyTheme.exists
    /\ "iterm2" \in dirs

\* C2: every installer call ends by returning an InstallResult, whatever the
\* outcome of its filesystem and subprocess steps; none ends in a thrown error.
C2_NoExceptionCrossesBoundary ==
    last.installer # "none" => result.outcome = "returned"

\* C3: when the profile write of the iTerm2 or the Terminal.app installer
\* succeeded, the result has success=true, no error and the same path whether
\* the live-apply subprocess succeeded or failed; only the instructions differ.
C3_LiveApplyNeverFails ==
    (last.installer \in {"iterm2", "terminalApp"} /\ last.wrote) =>
        /\ result.outcome = "returned"
        /\ result.success = TRUE
        /\ result.error = NoField
        /\ result.path = (IF last.installer = "iterm2"
                          THEN profilePath(getThemeName(last.themeId))
                          ELSE EmptyPath)
        /\ result.instructions.name = getThemeName(last.themeId)

\* The Terminal.app settings set was created and the apply to the open windows
\* failed.
C3_Witness ==
    /\ last.installer = "terminalApp"
    /\ last.wrote
    /\ getThemeName(last.themeId) \in termSets
    /\ termWindows # getThemeName(last.themeId)
    /\ result.instructions.text = "saved to Terminal profiles"

WtInstalled == last.installer = "windowsTerminal" /\ last.wrote

\* The scheme list of the settings file the installer uses.
WtSchemes(files) ==
    LET found == {i \in 1..3 : files[SettingsPaths[i]].exists}
        p == SettingsPaths[CHOOSE i \in found : \A j \in found : i <= j]
    IN  files[p].content.schemes.items

NamedLike(items, themeName) == {i \in 1..Len(items) : items[i].name = themeName}

\* C4: after each successful Windows Terminal install the scheme list holds
\* exactly one entry with the installed theme's name, and installing a theme
\* again right after it was installed adds no entry to the list.
C4_NoDuplicateSchemes ==
    [][(last'.installer = "windowsTerminal" /\ last'.wrote) =>
          /\ Cardinality(NamedLike(WtSchemes(wtFiles'), getThemeName(last'.themeId))) = 1
          /\ (WtInstalled /\ getThemeName(last.themeId) = getThemeName(last'.themeId)) =>
                Len(WtSchemes(wtFiles')) = Len(WtSchemes(wtFiles))]_vars

\* The colour scheme of the default profile in the settings file.
DefaultColorScheme(content) ==
    IF content.profiles.kind = "object" /\ content.profiles.defaults.kind = "object"
    THEN content.profiles.defaults.colorScheme
    ELSE NoName

\* C5: after each successful Windows Terminal install, whatever the shape of
\* the profiles value was, the colour scheme of the default profile in the
\* rewritten settings file is the name of the theme just installed.
C5_DefaultSchemeIsLatest ==
    WtInstalled =>
        DefaultColorScheme(wtFiles[result.path.dir].content) = getThemeName(last.themeId)

RECURSIVE SplitLines(_)
SplitLines(text) ==
    LET e == LineEnd(text, 1)
    IN  IF e > Len(text) THEN <<text>>
        ELSE <<SubSeq(text, 1, e - 1)>> \o SplitLines(SubSeq(text, e + 1, Len(text)))

FirstToken(line) == IF Trim(line) = <<>> THEN "" ELSE Head(Trim(line))

\* A line that mentions a colour section or the generated header anywhere.
MentionsColors(line) ==
    \E i \in 1..Len(line) : line[i] \in ColorHeaders \cup {HeaderTheme, HeaderGenerated}

\* The lines of a config that belong to no colour section and to no generated
\* header, blank lines left out, each without its surrounding blanks: a table
\* header starts its line, and a table runs to the next table header.
RECURSIVE PlainLinesFrom(_, _, _)
PlainLinesFrom(lines, i, inColors) ==
    IF i > Len(lines) THEN <<>>
    ELSE LET first == FirstToken(lines[i])
             nowInColors == IF first \in ColorHeaders THEN TRUE
                            ELSE IF first = Bracket THEN FALSE
                            ELSE inColors
         IN  (IF nowInColors \/ first = "" \/ MentionsColors(lines[i])
              THEN <<>> ELSE <<Trim(lines[i])>>)
             \o PlainLinesFrom(lines, i + 1, nowInColors)

PlainLines(text) == PlainLinesFrom(SplitLines(text), 1, FALSE)

TrimmedLines(text) ==
    LET lines == SplitLines(text) IN [i \in 1..Len(lines) |-> Trim(lines[i])]

\* xs can be read off ys in order.
RECURSIVE IsSubsequence(_, _)
IsSubsequence(xs, ys) ==
    IF xs = <<>> THEN TRUE
    ELSE IF ys = <<>> THEN FALSE
    ELSE IF Head(xs) = Head(ys) THEN IsSubsequence(Tail(xs), Tail(ys))
    ELSE IsSubsequence(xs, Tail(ys))

\* C6: after a successful Alacritty install, every line that the config held
\* before it in no colour section and in no generated header is still in the
\* file, in the same relative order.
C6_PlainLinesPreserved ==
    [][(last'.installer = "alacritty" /\ last'.wrote /\ alacrittyFile.exists) =>
          IsSubsequence(PlainLines(alacrittyFile.content),
                        TrimmedLines(alacrittyFile'.content))]_vars

CountOf(text, token) == Cardinality({i \in 1..Len(text) : text[i] = token})

ConfText(file) == IF file.exists THEN file.content ELSE <<>>

\* C7: a Kitty install prepends the include directive to the main config only
\* when the config lacks it: the directive never occurs more often than
\* max(1, its initial count), a config that holds it is never modified, a
\* successful install leaves it in the config, and the theme file holds the
\* theme of the last install that wrote it.
C7_IncludeOnceThemeReplaced ==
    [][/\ CountOf(ConfText(kittyConf'), includeStatement) <=
             (IF CountOf(ConfText(initial.kittyConf), includeStatement) > 1
              THEN CountOf(ConfText(initial.kittyConf), includeStatement) ELSE 1)
       /\ CountOf(ConfText(kittyConf'), includeStatement) >
             CountOf(ConfText(kittyConf), includeStatement) =>
                CountOf(ConfText(kittyConf), includeStatement) = 0
       /\ CountOf(ConfText(kittyConf), includeStatement) > 0 => kittyConf' = kittyConf
       /\ (last'.installer = "kitty" /\ result'.success) =>
             CountOf(ConfText(kittyConf'), includeStatement) > 0
       /\ (last'.installer = "kitty" /\ last'.wrote) =>
             kittyTheme' = File(kittyThemeContent(getThemeName(last'.themeId),
                                                  getThemeColors(last'.themeId)))]_vars

\* A second theme was installed over an older theme file, into a main config
\* that lacked the directive and got it once.
C7_Witness ==
    /\ last.installer = "kitty"
    /\ result.success
    /\ initial.kittyConf.exists
    /\ initial.kittyConf.content # <<>>
    /\ kittyConf = File(<<includeStatement, NL>> \o initial.kittyConf.content)
    /\ CountOf(kittyConf.content, includeStatement) = 1
    /\ kittyTheme.content.name = getThemeName("t2")

\* The indices of a JSONC text that lie in a string literal, quotes included:
\* a quote outside a comment opens a literal, the next quote not behind a
\* backslash closes it.
RECURSIVE StringIndices(_, _, _)
StringIndices(text, i, mode) ==
    IF i > Len(text) THEN {}
    ELSE LET next == IF i + 1 <= Len(text) THEN text[i + 1] ELSE "undefined"
         IN  CASE mode = "code" ->
                    IF text[i] = DQ THEN {i} \cup StringIndices(text, i + 1, "string")
                    ELSE IF text[i] = "/" /\ next = "/"
                    THEN StringIndices(text, i + 2, "line")
                    ELSE IF text[i] = "/" /\ next = "*"
                    THEN StringIndices(text, i + 2, "block")
                    ELSE StringIndices(text, i + 1, "code")
               [] mode = "string" ->
                    IF text[i] = BS
                    THEN {j \in {i, i + 1} : j <= Len(text)}
                         \cup StringIndices(text, i + 2, "string")
                    ELSE IF text[i] = DQ THEN {i} \cup StringIndices(text, i + 1, "code")
                    ELSE {i} \cup StringIndices(text, i + 1, "string")
               [] mode = "line" ->
                    IF text[i] = NL THEN StringIndices(text, i + 1, "code")
                    ELSE StringIndices(text, i + 1, "line")
               [] OTHER ->
                    IF text[i] = "*" /\ next = "/" THEN StringIndices(text, i + 2, "code")
                    ELSE StringIndices(text, i + 1, "block")

\* C8: every character of the text that lies in a string literal, so every
\* '//', '/*' and '*/' there, is in the scanner's output, unchanged and in
\* the order of the text.
C8_StringsSurviveScan ==
    stripped.stage = "scanned" =>
        /\ \A i \in StringIndices(doc, 1, "code") :
              \E k \in 1..Len(stripped.kept) :
                  stripped.kept[k] = i /\ stripped.text[k] = doc[i]
        /\ \A k \in 1..(Len(stripped.kept) - 1) : stripped.kept[k] < stripped.kept[k + 1]

\* A string literal holding '//' is kept and the comment behind it is dropped.
C8_Witness ==
    /\ stripped.stage = "scanned"
    /\ doc = <<DQ, "/", "/", DQ, "/", "/">>
    /\ stripped.text = <<DQ, "/", "/", DQ>>

\* C9: on a valid JSON text, here a string literal, the comment scanner
\* followed by the trailing-comma pass gives back the text unchanged.
C9_StripIsNoOpOnJson ==
    (stripped.stage = "cleaned" /\ IsJsonString(doc)) => stripped.text = doc

\* C10: an iTerm2 install that writes its profile leaves every profile file
\* written for a theme with another display name as it was.
C10_OtherProfilesUntouched ==
    [][(last'.installer = "iterm2" /\ last'.wrote) =>
          \A slug \in DOMAIN itermProfiles :
              (/\ itermProfiles[slug].kind = "profile"
               /\ itermProfiles[slug].Name # getThemeName(last'.themeId)) =>
                  itermProfiles'[slug] = itermProfiles[slug]]_vars

\* The index of the '/' that opens the block comment still open at the end of
\* a JSONC text, 0 when the text ends outside a block comment: '/*' outside a
\* string and outside a comment opens one, the first '*/' behind it closes it.
RECURSIVE OpenCommentStart(_, _, _, _)
OpenCommentStart(text, i, mode, start) ==
    IF i > Len(text) THEN (IF mode = "block" THEN start ELSE 0)
    ELSE LET next == IF i + 1 <= Len(text) THEN text[i + 1] ELSE "undefined"
         IN  CASE mode = "code" ->
                    IF text[i] = DQ THEN OpenCommentStart(text, i + 1, "string", 0)
                    ELSE IF text[i] = "/" /\ next = "/"
                    THEN OpenCommentStart(text, i + 2, "line", 0)
                    ELSE IF text[i] = "/" /\ next = "*"
                    THEN OpenCommentStart(text, i + 2, "block", i)
                    ELSE OpenCommentStart(text, i + 1, "code", 0)
               [] mode = "string" ->
                    IF text[i] = BS THEN OpenCommentStart(text, i + 2, "string", 0)
                    ELSE IF text[i] = DQ THEN OpenCommentStart(text, i + 1, "code", 0)
                    ELSE OpenCommentStart(text, i + 1, "string", 0)
               [] mode = "line" ->
                    IF text[i] = NL THEN OpenCommentStart(text, i + 1, "code", 0)
                    ELSE OpenCommentStart(text, i + 1, "line", 0)
               [] OTHER ->
                    IF text[i] = "*" /\ next = "/"
                    THEN OpenCommentStart(text, i + 2, "code", 0)
                    ELSE OpenCommentStart(text, i + 1, "block", start)

\* C12: when a text holds, outside a string, a '/*' with no '*/' behind it,
\* the scanner's output holds no character at or behind that '/*', the last
\* character of the text included.
C12_OpenCommentConsumesRest ==
    (stripped.stage = "scanned" /\ OpenCommentStart(doc, 1, "code", 0) > 0) =>
        \A k \in 1..Len(stripped.kept) :
            stripped.kept[k] < OpenCommentStart(doc, 1, "code", 0)

\* A text read character by character from a start state, first half then
\* second half.
RECURSIVE ReadFrom(_, _, _, _, _)
ReadFrom(Step(_, _), state, text, lo, hi) ==
    IF lo > hi THEN state
    ELSE IF lo = hi THEN Step(state, text[lo])
    ELSE LET mid == (lo + hi) \div 2
         IN  CHOOSE end \in {ReadFrom(Step, half, text, mid + 1, hi) :
                                half \in {ReadFrom(Step, state, text, lo, mid)}} : TRUE

\* A POSIX shell reading one character of a command line: blanks outside
\* quotes separate words, single quotes keep everything up to the next single
\* quote, double quotes keep everything up to the next double quote not behind
\* a backslash.
ShellStep(st, c) ==
    LET keep(chars) == [st EXCEPT !.word = st.word \o chars, !.open = TRUE,
                                  !.escaped = FALSE]
    IN  IF st.escaped
        THEN IF st.mode = "double" /\ c \notin {DQ, BS} THEN keep(<<BS, c>>)
             ELSE keep(<<c>>)
        ELSE CASE st.mode = "single" ->
                    IF c = SQ THEN [st EXCEPT !.mode = "plain"] ELSE keep(<<c>>)
               [] st.mode = "double" ->
                    IF c = DQ THEN [st EXCEPT !.mode = "plain"]
                    ELSE IF c = BS THEN [st EXCEPT !.escaped = TRUE]
                    ELSE keep(<<c>>)
               [] OTHER ->
                    IF c = Blank
                    THEN [st EXCEPT !.words = IF st.open THEN Append(st.words, st.word)
                                              ELSE st.words,
                                    !.word = <<>>, !.open = FALSE]
                    ELSE IF c = SQ THEN [st EXCEPT !.mode = "single", !.open = TRUE]
                    ELSE IF c = DQ THEN [st EXCEPT !.mode = "double", !.open = TRUE]
                    ELSE IF c = BS THEN [st EXCEPT !.escaped = TRUE]
                    ELSE keep(<<c>>)

\* The words a shell makes of a command line, and whether every quote of the
\* line is closed.
ShellWords(line) ==
    LET st == ReadFrom(ShellStep,
                       [mode |-> "plain", escaped |-> FALSE, words |-> <<>>,
                        word |-> <<>>, open |-> FALSE],
                       line, 1, Len(line))
    IN  [words |-> IF st.open THEN Append(st.words, st.word) ELSE st.words,
         closed |-> st.mode = "plain" /\ ~st.escaped]

\* AppleScript reading one character of a script: a double quote opens a
\* string literal, a backslash in it takes the next character as it is, the
\* next double quote closes it.
ScriptStep(st, c) ==
    IF st.escaped
    THEN [st EXCEPT !.value = Append(st.value, c), !.escaped = FALSE]
    ELSE IF st.inLiteral
    THEN IF c = BS THEN [st EXCEPT !.escaped = TRUE]
         ELSE IF c = DQ
         THEN [st EXCEPT !.values = Append(st.values, st.value), !.inLiteral = FALSE]
         ELSE [st EXCEPT !.value = Append(st.value, c)]
    ELSE IF c = DQ THEN [st EXCEPT !.inLiteral = TRUE, !.value = <<>>]
    ELSE st

\* The string literals of a script with the values they denote, and whether
\* the last one is closed.
ScriptLiterals(script) ==
    LET st == ReadFrom(ScriptStep,
                       [inLiteral |-> FALSE, escaped |-> FALSE, values |-> <<>>,
                        value |-> <<>>],
                       script, 1, Len(script))
    IN  [values |-> st.values, closed |-> ~st.inLiteral]

TemplateOf(installer) ==
    CASE installer = "iterm2" -> ItermTemplate
      [] installer = "terminalCreate" -> CreateProfileTemplate
      [] installer = "terminalApply" -> ApplyTemplate
      [] OTHER -> SetDefaultTemplate

\* The literals a script is meant to hold: those of its template, with the
\* theme name where the template has its hole.
MeantLiterals(installer, themeName) ==
    LET t == ScriptLiterals(TemplateOf(installer)).values
    IN  [k \in 1..Len(t) |-> IF t[k] = <<Hole>> THEN themeName ELSE t[k]]

\* The shell hands osascript the script as one argument, unchanged.
ShellKeepsScript ==
    ShellWords(command.line) = [words |-> <<<<"osascript">>, <<"-e">>, command.script>>, closed |-> TRUE]

\* C11: for every theme name, quotes and backslashes included, the command
\* line of each scripting subprocess gives osascript the script as one shell
\* argument, and every string literal of the script that takes the theme name
\* ends at the template's own closing quote and denotes the theme name.
C11_NameIsOneEscapedLiteral ==
    command.installer # "none" =>
        /\ ShellKeepsScript
        /\ ScriptLiterals(command.script) =
                  [values |-> MeantLiterals(command.installer, storedName),
                  closed |-> TRUE]

\* The settings document of the file the last install wrote.
WrittenSettings == wtFiles[result.path.dir].content

\* C13: when every Windows Terminal install request received has been handled
\* with success and the requests were for themes with different names, the
\* settings file holds a scheme for each of the themes and its default colour
\* scheme is the theme of the request handled last.
C13_NoLostUpdate ==
    (/\ ipc.waiting = {}
     /\ Len(ipc.done) >= 2
     /\ \A k \in 1..Len(ipc.done) : ipc.done[k].success
     /\ \A j, k \in 1..Len(ipc.done) :
           j # k => getThemeName(ipc.done[j].themeId) # getThemeName(ipc.done[k].themeId))
    => /\ \A k \in 1..Len(ipc.done) :
             NamedLike(WrittenSettings.schemes.items,
                       getThemeName(ipc.done[k].themeId)) # {}
       /\ DefaultColorScheme(WrittenSettings)
              = getThemeName(ipc.done[Len(ipc.done)].themeId)

=============================================================================
